---- MODULE Spec2Model ----
(***************************************************************************)
(* Model of the texture UV animation export tool: Extraction_AnimData.py   *)
(* (variant 1) and Extraction_AnimData_Final.py (variant 2).               *)
(*                                                                         *)
(* Strings are sequences of one-character strings, so that lower(),        *)
(* substring tests, os.path and csv formatting are computed, not assumed.  *)
(* Python values are tagged records (PyNone, PyInt, PyFloat, PyStr).       *)
(***************************************************************************)
EXTENDS Integers, Sequences, FiniteSets, TLC

VARIABLES
    scene,                \* the host's scene: graph, node list, animation, playback range
    variant,              \* which script is loaded: 1 = Extraction_AnimData, 2 = ..._Final
    sel,                  \* the host's selection list, cmds.ls(sl=True)
    EXPORT_PATH,          \* module global EXPORT_PATH
    TEXTURE_CHECKBOXES,   \* module global: file node -> value of its checkbox
    currentTime,          \* the host's current time
    written,              \* files opened for writing by the last handler: path -> rows
    last                  \* the last handler call: its inputs and what it reported

vars == <<scene, variant, sel, EXPORT_PATH, TEXTURE_CHECKBOXES, currentTime, written, last>>

(***************************************************************************)
(* Python strings                                                          *)
(***************************************************************************)
Range(s) == {s[i] : i \in 1..Len(s)}

\* the characters the model's names use, in code point order
Ascii == <<".", "/", "0", "1", "2", "3", "4", "5", "6", "7", "8", "9", ":",
           "A", "B", "C", "D", "E", "F", "G", "H", "I", "J", "K", "L", "M",
           "N", "O", "P", "Q", "R", "S", "T", "U", "V", "W", "X", "Y", "Z",
           "_",
           "a", "b", "c", "d", "e", "f", "g", "h", "i", "j", "k", "l", "m",
           "n", "o", "p", "q", "r", "s", "t", "u", "v", "w", "x", "y", "z">>

Ord == [c \in Range(Ascii) |-> CHOOSE i \in 1..Len(Ascii) : Ascii[i] = c]

IsUpper(c) == Ord[c] >= Ord["A"] /\ Ord[c] <= Ord["Z"]

LowerChar == [c \in Range(Ascii) |->
                 IF IsUpper(c) THEN Ascii[Ord[c] + (Ord["a"] - Ord["A"])] ELSE c]

\* str.lower()
StrLower(s) == [i \in 1..Len(s) |-> LowerChar[s[i]]]

\* Python's  k in s  on strings
Contains(k, s) ==
    \E i \in 1..(Len(s) - Len(k) + 1) : SubSeq(s, i, i + Len(k) - 1) = k

\* the glob "prefix*" of cmds.ls: case-sensitive, * matches any rest
StartsWith(s, p) == Len(s) >= Len(p) /\ SubSeq(s, 1, Len(p)) = p

\* Python's  a < b  on strings: lexicographic by code point
RECURSIVE StrLess(_, _)
StrLess(a, b) ==
    IF b = <<>> THEN FALSE
    ELSE IF a = <<>> THEN TRUE
    ELSE IF a[1] = b[1] THEN StrLess(Tail(a), Tail(b))
    ELSE Ord[a[1]] < Ord[b[1]]

\* sorted(S) for a set S of strings
RECURSIVE Sorted(_)
Sorted(S) ==
    IF S = {} THEN <<>>
    ELSE LET m == CHOOSE x \in S : \A y \in S \ {x} : StrLess(x, y)
         IN <<m>> \o Sorted(S \ {m})

\* str(n) for an integer n
RECURSIVE DigitsOf(_)
DigitsOf(n) ==
    IF n < 10 THEN <<Ascii[Ord["0"] + n]>>
    ELSE DigitsOf(n \div 10) \o <<Ascii[Ord["0"] + (n % 10)]>>

Minus == <<"-">>

IntToStr(n) == IF n < 0 THEN Minus \o DigitsOf(-n) ELSE DigitsOf(n)

\* repr(x) for a float x with an integral value: "3.0"
FloatToStr(n) == IntToStr(n) \o <<".", "0">>

\* s.rfind(c): the last index of c in s, 0 when absent (Python's -1, shifted by one)
RECURSIVE RFindFrom(_, _, _)
RFindFrom(s, c, i) ==
    IF i = 0 THEN 0 ELSE IF s[i] = c THEN i ELSE RFindFrom(s, c, i - 1)

RFind(s, c) == RFindFrom(s, c, Len(s))

(***************************************************************************)
(* Python values                                                           *)
(***************************************************************************)
PyNone == [t |-> "None"]
PyInt(n) == [t |-> "int", v |-> n]
PyFloat(n) == [t |-> "float", v |-> n]
PyStr(s) == [t |-> "str", v |-> s]

(***************************************************************************)
(* os.path (posixpath) as used at the export path                          *)
(***************************************************************************)
RECURSIVE RStripSlash(_)
RStripSlash(s) ==
    IF s # <<>> /\ s[Len(s)] = "/" THEN RStripSlash(SubSeq(s, 1, Len(s) - 1)) ELSE s

\* os.path.dirname(p)
Dirname(p) ==
    LET head == SubSeq(p, 1, RFind(p, "/"))
    IN IF head # <<>> /\ (\E i \in 1..Len(head) : head[i] # "/")
       THEN RStripSlash(head) ELSE head

\* os.path.basename(p)
Basename(p) == SubSeq(p, RFind(p, "/") + 1, Len(p))

\* os.path.splitext(p)[0]: the extension starts at the last dot of the last
\* component, leading dots of that component not counted
SplitextRoot(p) ==
    LET sep == RFind(p, "/")
        dot == RFind(p, ".")
    IN IF dot > sep /\ (\E j \in (sep + 1)..(dot - 1) : p[j] # ".")
       THEN SubSeq(p, 1, dot - 1) ELSE p

\* os.path.join(a, b)
PathJoin(a, b) ==
    IF b # <<>> /\ b[1] = "/" THEN b
    ELSE IF a = <<>> \/ a[Len(a)] = "/" THEN a \o b
    ELSE a \o <<"/">> \o b

(***************************************************************************)
(* Names of the scene's nodes                                              *)
(***************************************************************************)
N_head == <<"h", "e", "a", "d">>
N_body == <<"b", "o", "d", "y">>
N_headShape == <<"h", "e", "a", "d", "S", "h", "a", "p", "e">>
N_bodyShape == <<"b", "o", "d", "y", "S", "h", "a", "p", "e">>
N_eyeSG == <<"e", "y", "e", "S", "G">>
N_skinSG == <<"s", "k", "i", "n", "S", "G">>
N_eyeMat == <<"e", "y", "e", "M", "a", "t">>
N_skinMat == <<"s", "k", "i", "n", "M", "a", "t">>
N_Iris_file == <<"I", "r", "i", "s", "_", "f", "i", "l", "e">>
N_Pupil_tex == <<"P", "u", "p", "i", "l", "_", "t", "e", "x">>
N_EyePupil_tex == <<"E", "y", "e", "P", "u", "p", "i", "l", "_", "t", "e", "x">>
N_skin_file == <<"s", "k", "i", "n", "_", "f", "i", "l", "e">>
N_place2dTexture1 == <<"p", "l", "a", "c", "e", "2", "d", "T", "e", "x", "t", "u", "r", "e", "1">>
N_Eye_place == <<"E", "y", "e", "_", "p", "l", "a", "c", "e">>
N_Translation_Corr_Mouth == <<"T", "r", "a", "n", "s", "l", "a", "t", "i", "o", "n", "_", "C", "o", "r", "r", "_", "M", "o", "u", "t", "h">>
N_Translation_Corr_Iris == <<"T", "r", "a", "n", "s", "l", "a", "t", "i", "o", "n", "_", "C", "o", "r", "r", "_", "I", "r", "i", "s">>
N_Translation_Corr_Pupil == <<"T", "r", "a", "n", "s", "l", "a", "t", "i", "o", "n", "_", "C", "o", "r", "r", "_", "P", "u", "p", "i", "l">>
N_Translation_Corr_Eye == <<"T", "r", "a", "n", "s", "l", "a", "t", "i", "o", "n", "_", "C", "o", "r", "r", "_", "E", "y", "e">>
N_Translation_Corr_EyePupil == <<"T", "r", "a", "n", "s", "l", "a", "t", "i", "o", "n", "_", "C", "o", "r", "r", "_", "E", "y", "e", "P", "u", "p", "i", "l">>
N_Translation_Corr_Iris_grp == <<"T", "r", "a", "n", "s", "l", "a", "t", "i", "o", "n", "_", "C", "o", "r", "r", "_", "I", "r", "i", "s", "_", "g", "r", "p">>
N_ScaleU_corr_iris == <<"S", "c", "a", "l", "e", "U", "_", "c", "o", "r", "r", "_", "i", "r", "i", "s">>
N_ScaleU_corr_EYE == <<"S", "c", "a", "l", "e", "U", "_", "c", "o", "r", "r", "_", "E", "Y", "E">>
N_ScaleU_corr_pupil == <<"S", "c", "a", "l", "e", "U", "_", "c", "o", "r", "r", "_", "p", "u", "p", "i", "l">>
N_ScaleU_corr_eyePupil == <<"S", "c", "a", "l", "e", "U", "_", "c", "o", "r", "r", "_", "e", "y", "e", "P", "u", "p", "i", "l">>
N_ScaleV_corr_iris == <<"S", "c", "a", "l", "e", "V", "_", "c", "o", "r", "r", "_", "i", "r", "i", "s">>
N_ScaleV_corr_eye == <<"S", "c", "a", "l", "e", "V", "_", "c", "o", "r", "r", "_", "e", "y", "e">>
N_ScaleV_corr_mouth == <<"S", "c", "a", "l", "e", "V", "_", "c", "o", "r", "r", "_", "m", "o", "u", "t", "h">>

\* string literals of the scripts
K_iris == <<"i", "r", "i", "s">>
K_pupil == <<"p", "u", "p", "i", "l">>
K_eye == <<"e", "y", "e">>
T_Translation_Corr == <<"T", "r", "a", "n", "s", "l", "a", "t", "i", "o", "n", "_", "C", "o", "r", "r", "_">>
T_ScaleU_corr == <<"S", "c", "a", "l", "e", "U", "_", "c", "o", "r", "r", "_">>
T_ScaleV_corr == <<"S", "c", "a", "l", "e", "V", "_", "c", "o", "r", "r", "_">>
O_ActiveImage == <<"A", "c", "t", "i", "v", "e", "I", "m", "a", "g", "e">>
O_OffsetU == <<"O", "f", "f", "s", "e", "t", "U">>
O_OffsetV == <<"O", "f", "f", "s", "e", "t", "V">>
O_ScaleU == <<"S", "c", "a", "l", "e", "U">>
O_ScaleV == <<"S", "c", "a", "l", "e", "V">>
O_RotateUV == <<"R", "o", "t", "a", "t", "e", "U", "V">>
H_Frame == <<"F", "r", "a", "m", "e">>
H_Geometry == <<"G", "e", "o", "m", "e", "t", "r", "y">>
H_Material == <<"M", "a", "t", "e", "r", "i", "a", "l">>
H_FileTexture == <<"F", "i", "l", "e", "T", "e", "x", "t", "u", "r", "e">>
X_csv == <<".", "c", "s", "v">>
X_underscore == <<"_">>

(***************************************************************************)
(* The scene (the host's state the scripts query)                          *)
(***************************************************************************)
LastFrame == 3   \* the playback ranges of the model end at this frame

FileNodes == {N_Iris_file, N_Pupil_tex, N_skin_file}
PlaceNodes == {N_place2dTexture1, N_Eye_place}
MultiplyDivideNodes ==
    {N_Translation_Corr_Mouth, N_Translation_Corr_Iris, N_Translation_Corr_Pupil,
     N_Translation_Corr_Eye, N_ScaleU_corr_iris, N_ScaleU_corr_EYE, N_ScaleU_corr_pupil,
     N_ScaleV_corr_iris, N_ScaleV_corr_eye, N_ScaleV_corr_mouth,
     N_Translation_Corr_EyePupil, N_ScaleU_corr_eyePupil}

\* cmds.nodeType(n)
nodeType(n) ==
    IF n \in FileNodes THEN "file"
    ELSE IF n \in PlaceNodes THEN "place2dTexture"
    ELSE IF n \in MultiplyDivideNodes THEN "multiplyDivide"
    ELSE IF n \in {N_eyeMat, N_skinMat} THEN "lambert"
    ELSE "transform"

\* every node that carries attributes, numbered: a node's static attribute
\* values are derived from its number so that different nodes give different values
AttrNodes ==
    <<N_Iris_file, N_Pupil_tex, N_skin_file, N_place2dTexture1, N_Eye_place,
      N_Translation_Corr_Mouth, N_Translation_Corr_Iris, N_Translation_Corr_Pupil,
      N_Translation_Corr_Eye, N_ScaleU_corr_iris, N_ScaleU_corr_EYE, N_ScaleU_corr_pupil,
      N_ScaleV_corr_iris, N_ScaleV_corr_eye, N_ScaleV_corr_mouth,
      N_Translation_Corr_EyePupil, N_ScaleU_corr_eyePupil>>

AttrNames ==
    <<"frameExtension", "offsetU", "offsetV", "repeatU", "repeatV", "rotateUV",
      "outputX", "outputY">>

IndexIn(seq, x) == CHOOSE i \in 1..Len(seq) : seq[i] = x

StaticValues ==
    [n \in Range(AttrNodes) |->
        [a \in Range(AttrNames) |-> 10 * IndexIn(AttrNodes, n) + IndexIn(AttrNames, a)]]

StaticValue(n, a) == StaticValues[n][a]

\* an animation curve, evaluated at time t
Curve(c, t) ==
    CASE c = "step"  -> IF t >= 2 THEN 1 ELSE 0
      [] c = "pulse" -> IF t = 2 THEN 1 ELSE 0
      [] c = "ramp"  -> t
      [] OTHER       -> 0

\* the dependency graph, the same in every scene of the model:
\*   head: headShape -> eyeSG, skinSG -> eyeMat, skinMat;   body: bodyShape -> skinSG -> skinMat
\*   eyeMat  <- Iris_file <- place2dTexture1,  Pupil_tex <- Eye_place
\*   skinMat <- Iris_file <- place2dTexture1,  skin_file (no uvCoord input)
Shapes == (N_head :> <<N_headShape>>) @@ (N_body :> <<N_bodyShape>>)
ShadingEngines == (N_headShape :> <<N_eyeSG, N_skinSG>>) @@ (N_bodyShape :> <<N_skinSG>>)
SurfaceShader == (N_eyeSG :> <<N_eyeMat>>) @@ (N_skinSG :> <<N_skinMat>>)
History ==
    (N_eyeMat :> <<N_eyeMat, N_Iris_file, N_place2dTexture1, N_Pupil_tex, N_Eye_place>>)
    @@ (N_skinMat :> <<N_skinMat, N_skin_file, N_Iris_file, N_place2dTexture1>>)
UvCoord ==
    (N_Iris_file :> <<N_place2dTexture1>>) @@ (N_Pupil_tex :> <<N_Eye_place>>)
    @@ (N_skin_file :> <<>>)

\* animated attributes of a scene: <<node, attribute>> -> curve
AnimatedCurves ==
    (<<N_Iris_file, "frameExtension">> :> "ramp")
    @@ (<<N_place2dTexture1, "offsetU">> :> "step")
    @@ (<<N_place2dTexture1, "rotateUV">> :> "pulse")
    @@ (<<N_Eye_place, "repeatV">> :> "step")
    @@ (<<N_Translation_Corr_Iris, "outputX">> :> "pulse")
    @@ (<<N_Translation_Corr_Mouth, "outputY">> :> "step")
    @@ (<<N_ScaleU_corr_iris, "outputX">> :> "step")
    @@ (<<N_ScaleV_corr_eye, "outputX">> :> "ramp")

NoCurves == [x \in {} |-> "none"]

\* a scene: the iteration order of a set of materials (Python's hash order, fixed
\* within a session), the nodes cmds.ls lists in its order, the animation, the
\* file nodes with useFrameExtension on, and the playback range in half frames
\* (the host's playback bounds are floats: 3 stands for 1.5)
MkScene(order, nodes, curves, ufe, min2, max2) ==
    [ hashOrder |-> order, nodes |-> nodes, curves |-> curves,
      useFrameExtension |-> ufe, pbMin2 |-> min2, pbMax2 |-> max2 ]

\* two scenes without correction nodes, which differ in the hash order, in the
\* file nodes that use a frame extension and in the playback range (1..LastFrame
\* and 1.5..LastFrame + 0.5)
ScenePlain == MkScene(<<N_eyeMat, N_skinMat>>, <<>>, AnimatedCurves, {N_Iris_file},
                      2, 2 * LastFrame)

ScenePlainHalf == MkScene(<<N_skinMat, N_eyeMat>>, <<>>, AnimatedCurves,
                          {N_Iris_file, N_Pupil_tex}, 3, 2 * LastFrame + 1)

\* correction nodes that match the textures' keywords, after ones that do not
SceneCorr ==
    MkScene(<<N_eyeMat, N_skinMat>>,
            <<N_Translation_Corr_Mouth, N_Translation_Corr_Iris_grp,
              N_Translation_Corr_Iris, N_ScaleU_corr_iris, N_ScaleV_corr_eye>>,
            AnimatedCurves, {N_Iris_file}, 2, 2 * LastFrame)

\* one correction node, which matches no keyword; the range -1.5..LastFrame - 1.5
SceneCorrMouth ==
    MkScene(<<N_skinMat, N_eyeMat>>, <<N_Translation_Corr_Mouth>>,
            AnimatedCurves, {}, -3, 2 * LastFrame - 3)

\* nothing animated, and a playback range with min > max
SceneEmptyRange == MkScene(<<N_eyeMat, N_skinMat>>, <<>>, NoCurves, {}, 2 * LastFrame, 2)

\* several matching correction nodes, and a playback range of one frame
SceneCorrMany ==
    MkScene(<<N_skinMat, N_eyeMat>>,
            <<N_ScaleU_corr_EYE, N_Translation_Corr_Pupil, N_Translation_Corr_Eye,
              N_ScaleU_corr_pupil, N_ScaleV_corr_mouth>>,
            AnimatedCurves, {N_Iris_file}, 4, 4)

ScenePool ==
    {ScenePlain, ScenePlainHalf, SceneCorr, SceneCorrMouth, SceneEmptyRange, SceneCorrMany}

\* the scenes of the sessions that explore the panel
SessionScenes == {ScenePlain, ScenePlainHalf, SceneCorr}

(***************************************************************************)
(* Host queries                                                            *)
(***************************************************************************)
\* cmds.getAttr(node + "." + attr) with the host's time at t
getAttr(sc, n, a, t) ==
    IF <<n, a>> \in DOMAIN sc.curves
    THEN StaticValue(n, a) + Curve(sc.curves[<<n, a>>], t)
    ELSE StaticValue(n, a)

\* cmds.ls(prefix + "*", type="multiplyDivide")
ls(sc, prefix) ==
    SelectSeq(sc.nodes, LAMBDA n : StartsWith(n, prefix) /\ nodeType(n) = "multiplyDivide")

\* int(cmds.playbackOptions(q=True, min=True)): int() truncates toward zero
IntTrunc2(x2) == IF x2 >= 0 THEN x2 \div 2 ELSE -((-x2) \div 2)

RECURSIVE Flatten(_)
Flatten(ss) == IF ss = <<>> THEN <<>> ELSE Head(ss) \o Flatten(Tail(ss))

\* get_materials_from_geo: the set of surface shaders, listed in hash order
get_materials_from_geo(sc, geo) ==
    LET shapes == IF geo \in DOMAIN Shapes THEN Shapes[geo] ELSE <<>>
        sgs == Flatten([i \in 1..Len(shapes) |-> ShadingEngines[shapes[i]]])
        materials == UNION {Range(SurfaceShader[sgs[i]]) : i \in 1..Len(sgs)}
    IN SelectSeq(sc.hashOrder, LAMBDA m : m \in materials)

\* get_file_textures_from_material
get_file_textures_from_material(material) ==
    LET history == History[material]
        files == {h \in Range(history) : nodeType(h) = "file"}
    IN Sorted(files)

\* get_place2d: None is <<>>
get_place2d(file_node) ==
    LET p == UvCoord[file_node]
    IN IF p # <<>> THEN p[1] ELSE <<>>

\* get_active_image
get_active_image(sc, file_node, t) ==
    IF nodeType(file_node) = "file"
    THEN IF file_node \in sc.useFrameExtension
         THEN PyInt(getAttr(sc, file_node, "frameExtension", t))
         ELSE PyNone
    ELSE PyNone

(***************************************************************************)
(* Variant 2: sampling through correction nodes                            *)
(***************************************************************************)
KEYWORDS == <<K_iris, K_pupil, K_eye>>

KeysOfName(s) ==
    IF s = <<>> THEN <<>>
    ELSE SelectSeq(KEYWORDS, LAMBDA k : Contains(k, StrLower(s)))

\* _keyword_from_names
keyword_from_names(file_node, place_node) ==
    KeysOfName(file_node) \o KeysOfName(place_node)

\* the hits with the loops exchanged: for n in nodes: for k in keys
KeywordHitsNodesFirst(keys, nodes) ==
    Flatten([j \in 1..Len(nodes) |->
                [i \in 1..Len(SelectSeq(keys, LAMBDA k : Contains(k, StrLower(nodes[j])))) |->
                    nodes[j]]])

\* the nodes met by  for k in keys: for n in nodes: if k in n.lower()  in loop order
KeywordHits(keys, nodes) ==
    Flatten([i \in 1..Len(keys) |->
                SelectSeq(nodes, LAMBDA n : Contains(keys[i], StrLower(n)))])

\* get_offset_uv without the return of the first listed node
OffsetFromNoFirstNode(sc, place_node, t, nodes, hits) ==
    IF hits # <<>>
    THEN <<PyFloat(getAttr(sc, hits[1], "outputX", t)),
           PyFloat(getAttr(sc, hits[1], "outputY", t))>>
    ELSE <<PyFloat(getAttr(sc, place_node, "offsetU", t)),
           PyFloat(getAttr(sc, place_node, "offsetV", t))>>

\* the return of get_offset_uv, given the listed nodes and the keyword hits
OffsetFrom(sc, place_node, t, nodes, hits) ==
    IF hits # <<>>
    THEN <<PyFloat(getAttr(sc, hits[1], "outputX", t)),
           PyFloat(getAttr(sc, hits[1], "outputY", t))>>
    ELSE IF nodes # <<>>
    THEN <<PyFloat(getAttr(sc, nodes[1], "outputX", t)),
           PyFloat(getAttr(sc, nodes[1], "outputY", t))>>
    ELSE <<PyFloat(getAttr(sc, place_node, "offsetU", t)),
           PyFloat(getAttr(sc, place_node, "offsetV", t))>>

\* get_offset_uv: the pair (OffsetU, OffsetV); the first hit returns
get_offset_uv(sc, file_node, place_node, t) ==
    OffsetFrom(sc, place_node, t, ls(sc, T_Translation_Corr),
               KeywordHits(keyword_from_names(file_node, place_node),
                           ls(sc, T_Translation_Corr)))

\* su (or sv) with repeatU read for either axis
ScaleFromRepeatU(sc, place_node, attr, t, hits) ==
    IF hits # <<>> THEN PyFloat(getAttr(sc, hits[Len(hits)], "outputX", t))
    ELSE PyFloat(getAttr(sc, place_node, "repeatU", t))

\* su (or sv) when the loops stop at the first hit
ScaleFromFirstHit(sc, place_node, attr, t, hits) ==
    IF hits # <<>> THEN PyFloat(getAttr(sc, hits[1], "outputX", t))
    ELSE PyFloat(getAttr(sc, place_node, attr, t))

\* su (or sv) of get_scale_uv: every hit overwrites the one before, and None
\* is replaced by the place2d node's attribute
ScaleFrom(sc, place_node, attr, t, hits) ==
    IF hits # <<>> THEN PyFloat(getAttr(sc, hits[Len(hits)], "outputX", t))
    ELSE PyFloat(getAttr(sc, place_node, attr, t))

\* get_scale_uv: the pair (ScaleU, ScaleV)
get_scale_uv(sc, file_node, place_node, t) ==
    << ScaleFrom(sc, place_node, "repeatU", t,
                 KeywordHits(keyword_from_names(file_node, place_node),
                             ls(sc, T_ScaleU_corr))),
       ScaleFrom(sc, place_node, "repeatV", t,
                 KeywordHits(keyword_from_names(file_node, place_node),
                             ls(sc, T_ScaleV_corr))) >>

(***************************************************************************)
(* Export                                                                  *)
(***************************************************************************)
ALL_OPTIONS == <<O_ActiveImage, O_OffsetU, O_OffsetV, O_ScaleU, O_ScaleV, O_RotateUV>>

NoFiles == [p \in {} |-> <<>>]

\* csv.writer's text of one cell, and of one row
CsvCell(x) ==
    CASE x.t = "None"  -> <<>>
      [] x.t = "int"   -> IntToStr(x.v)
      [] x.t = "float" -> FloatToStr(x.v)
      [] x.t = "str"   -> x.v

CsvRow(row) == [i \in 1..Len(row) |-> CsvCell(row[i])]

CsvRows(rows) == [i \in 1..Len(rows) |-> CsvRow(rows[i])]

\* base_dir, base_name
BaseDir(export_path) == Dirname(export_path)

BaseName(export_path) == SplitextRoot(Basename(export_path))

\* csv_path
CsvPath(base_dir, base_name, file_node) ==
    PathJoin(base_dir, base_name \o X_underscore \o file_node \o X_csv)

\* the metadata cells of a header or of a row
MetaCells(meta, g, m, f) ==
    (IF meta.geo THEN <<PyStr(g)>> ELSE <<>>)
    \o (IF meta.mat THEN <<PyStr(m)>> ELSE <<>>)
    \o (IF meta.file THEN <<PyStr(f)>> ELSE <<>>)

Header(meta, options) ==
    <<PyStr(H_Frame)>> \o MetaCells(meta, H_Geometry, H_Material, H_FileTexture)
    \o [i \in 1..Len(options) |-> PyStr(options[i])]

\* a comparison that only tells the first frame from the later ones
StateChangedFirstOnly(state, last_state) == last_state = <<>>

\* state != last_state, last_state being None (<<>>) or a list (<<list>>)
StateChanged(state, last_state) == last_state = <<>> \/ last_state[1] # state

\* variant 1: the values sampled at the host's time t, in the order of the ifs
SampleState1(sc, options, file_node, place, t) ==
    (IF O_ActiveImage \in Range(options)
        THEN <<get_active_image(sc, file_node, t)>> ELSE <<>>)
    \o (IF O_OffsetU \in Range(options)
        THEN <<PyFloat(getAttr(sc, place, "offsetU", t))>> ELSE <<>>)
    \o (IF O_OffsetV \in Range(options)
        THEN <<PyFloat(getAttr(sc, place, "offsetV", t))>> ELSE <<>>)
    \o (IF O_ScaleU \in Range(options)
        THEN <<PyFloat(getAttr(sc, place, "repeatU", t))>> ELSE <<>>)
    \o (IF O_ScaleV \in Range(options)
        THEN <<PyFloat(getAttr(sc, place, "repeatV", t))>> ELSE <<>>)
    \o (IF O_RotateUV \in Range(options)
        THEN <<PyFloat(getAttr(sc, place, "rotateUV", t))>> ELSE <<>>)

\* variant 2: the dict current, given the values its branches compute
CurrentDict(options, ai, ouv, suv, rot) ==
    [o \in Range(options) |->
        CASE o = O_ActiveImage -> ai
          [] o = O_OffsetU     -> ouv[1]
          [] o = O_OffsetV     -> ouv[2]
          [] o = O_ScaleU      -> suv[1]
          [] o = O_ScaleV      -> suv[2]
          [] o = O_RotateUV    -> rot]

Current2(sc, options, file_node, place, t) ==
    CurrentDict(options,
                get_active_image(sc, file_node, t),
                get_offset_uv(sc, file_node, place, t),
                get_scale_uv(sc, file_node, place, t),
                PyFloat(getAttr(sc, place, "rotateUV", t)))

\* state = [current[o] for o in options]
StateOf(options, current) == [i \in 1..Len(options) |-> current[options[i]]]

SampleState2(sc, options, file_node, place, t) ==
    StateOf(options, Current2(sc, options, file_node, place, t))

\* the body of the frame loop once the time is set and the state is sampled.
\* c: the loop's constants; a: rows, last_state, the host's time and the calls
\* of cmds.currentTime so far
KeepChangesOnly(c, a, state) == StateChanged(state, a.last_state)

Keep(c, a, state) == c.collect_all \/ StateChanged(state, a.last_state)

Row(c, f, state) ==
    <<PyInt(f)>> \o MetaCells(c.meta, c.geo, c.mat, c.file_node) \o state

FrameBody1(c, f, a, time, state) ==
    IF Keep(c, a, state)
    THEN [ rows |-> Append(a.rows, Row(c, f, state)), last_state |-> <<state>>,
           time |-> time, timeline |-> Append(a.timeline, time) ]
    ELSE [ rows |-> a.rows, last_state |-> a.last_state,
           time |-> time, timeline |-> Append(a.timeline, time) ]

\* for f in range(start, end + 1): the time is set to f, then the state is sampled
RECURSIVE FrameLoop1(_, _, _)
FrameLoop1(c, f, a) ==
    IF f > c.end THEN a
    ELSE FrameLoop1(c, f + 1,
            FrameBody1(c, f, a, f,
                       SampleState1(c.sc, c.options, c.file_node, c.place, f)))

\* the loop body with the curve's frame appended outside the if
FrameBody2FrameAlways(c, f, a, time, state) ==
    IF Keep(c, a, state)
    THEN [ rows |-> Append(a.rows, Row(c, f, state)),
           curve_frames |-> Append(a.curve_frames, PyInt(f)),
           curve_values |-> [i \in 1..Len(c.options) |->
                                Append(a.curve_values[i], state[i])],
           last_state |-> <<state>>,
           time |-> time, timeline |-> Append(a.timeline, time) ]
    ELSE [ rows |-> a.rows, curve_frames |-> Append(a.curve_frames, PyInt(f)),
           curve_values |-> a.curve_values, last_state |-> a.last_state,
           time |-> time, timeline |-> Append(a.timeline, time) ]

FrameBody2(c, f, a, time, state) ==
    IF Keep(c, a, state)
    THEN [ rows |-> Append(a.rows, Row(c, f, state)),
           curve_frames |-> Append(a.curve_frames, PyInt(f)),
           curve_values |-> [i \in 1..Len(c.options) |->
                                Append(a.curve_values[i], state[i])],
           last_state |-> <<state>>,
           time |-> time, timeline |-> Append(a.timeline, time) ]
    ELSE [ rows |-> a.rows, curve_frames |-> a.curve_frames,
           curve_values |-> a.curve_values, last_state |-> a.last_state,
           time |-> time, timeline |-> Append(a.timeline, time) ]

RECURSIVE FrameLoop2(_, _, _)
\* the loop with the state sampled before the time is set to f
FrameLoop2SampleFirst(c, f, a) ==
    IF f > c.end THEN a
    ELSE FrameLoop2(c, f + 1,
            FrameBody2(c, f, a, f,
                       SampleState2(c.sc, c.options, c.file_node, c.place, a.time)))

FrameLoop2(c, f, a) ==
    IF f > c.end THEN a
    ELSE FrameLoop2(c, f + 1,
            FrameBody2(c, f, a, f,
                       SampleState2(c.sc, c.options, c.file_node, c.place, f)))

\* what variant 1 writes for one pair: the header, then the rows
Content1(c, r) == <<CsvRow(Header(c.meta, c.options))>> \o CsvRows(r.rows)

\* what variant 2 writes for one pair
Content2(c, r) ==
    IF c.export_mode = "datatable"
    THEN <<CsvRow(Header(c.meta, c.options))>> \o CsvRows(r.rows)
    ELSE <<CsvRow(<<PyStr(<<>>)>> \o r.curve_frames)>>
         \o [i \in 1..Len(c.options) |->
                CsvRow(<<PyStr(c.options[i])>> \o r.curve_values[i])]

\* for mat in materials: for file_node in get_file_textures_from_material(mat)
PairsOf(mat, files) == [j \in 1..Len(files) |-> <<mat, files[j]>>]

Pairs(materials) ==
    Flatten([i \in 1..Len(materials) |->
                PairsOf(materials[i], get_file_textures_from_material(materials[i]))])

\* the filters without the test of the checkbox's value
SkippedUnlessListed(tc, file_node) ==
    \/ file_node \notin DOMAIN tc
    \/ get_place2d(file_node) = <<>>

\* the three filters of the loop body
Skipped(tc, file_node) ==
    \/ file_node \notin DOMAIN tc
    \/ ~tc[file_node]
    \/ get_place2d(file_node) = <<>>

\* the constants of one pair's frame loop
PairCtx(c, mat, file_node) ==
    [ sc |-> c.sc, options |-> c.options, meta |-> c.meta,
      collect_all |-> c.collect_all, export_mode |-> c.export_mode, geo |-> c.geo,
      mat |-> mat, file_node |-> file_node, place |-> get_place2d(file_node),
      end |-> c.end ]

\* the end of the loop body: r is what the frame loop left
PairWrite1(c, a, file_node, r) ==
    [ files |-> IF r.rows # <<>>
                THEN (CsvPath(c.base_dir, c.base_name, file_node) :> Content1(c, r))
                     @@ a.files
                ELSE a.files,
      time |-> r.time, timeline |-> r.timeline ]

\* the file opened for appending instead of for writing
PairWrite2Append(c, a, file_node, r) ==
    [ files |-> IF CsvPath(c.base_dir, c.base_name, file_node) \in DOMAIN a.files
                THEN [a.files EXCEPT ![CsvPath(c.base_dir, c.base_name, file_node)] =
                        @ \o Content2(c, r)]
                ELSE (CsvPath(c.base_dir, c.base_name, file_node) :> Content2(c, r))
                     @@ a.files,
      time |-> r.time, timeline |-> r.timeline ]

PairWrite2(c, a, file_node, r) ==
    [ files |-> (CsvPath(c.base_dir, c.base_name, file_node) :> Content2(c, r))
                @@ a.files,
      time |-> r.time, timeline |-> r.timeline ]

\* the loop body. a: the files written, the host's time, the timeline
PairBody1(c, a, mat, file_node) ==
    IF Skipped(c.tc, file_node) THEN a
    ELSE PairWrite1(c, a, file_node,
            FrameLoop1(PairCtx(c, mat, file_node), c.start,
                       [ rows |-> <<>>, last_state |-> <<>>, time |-> a.time,
                         timeline |-> a.timeline ]))

PairBody2(c, a, mat, file_node) ==
    IF Skipped(c.tc, file_node) THEN a
    ELSE PairWrite2(c, a, file_node,
            FrameLoop2(PairCtx(c, mat, file_node), c.start,
                       [ rows |-> <<>>, curve_frames |-> <<>>,
                         curve_values |-> [i \in 1..Len(c.options) |-> <<>>],
                         last_state |-> <<>>, time |-> a.time,
                         timeline |-> a.timeline ]))

RECURSIVE PairLoop1(_, _, _)
PairLoop1(c, pairs, a) ==
    IF pairs = <<>> THEN a
    ELSE PairLoop1(c, Tail(pairs), PairBody1(c, a, Head(pairs)[1], Head(pairs)[2]))

RECURSIVE PairLoop2(_, _, _)
PairLoop2(c, pairs, a) ==
    IF pairs = <<>> THEN a
    ELSE PairLoop2(c, Tail(pairs), PairBody2(c, a, Head(pairs)[1], Head(pairs)[2]))

\* what a call of export_textures reports: the warning ("" for none), whether the
\* in-view message was shown, the files written, the host's time afterwards
Rejected(warning, time) ==
    [ warning |-> warning, message |-> FALSE, files |-> NoFiles, time |-> time,
      timeline |-> <<>> ]

Completed(r) ==
    [ warning |-> "", message |-> TRUE, files |-> r.files, time |-> r.time,
      timeline |-> r.timeline ]

\* the constants of the loop over the pairs
ExportCtx(sc, path, geo, tc, options, meta, export_mode, collect_all) ==
    [ sc |-> sc, base_dir |-> BaseDir(path), base_name |-> BaseName(path), tc |-> tc,
      options |-> options, meta |-> meta, collect_all |-> collect_all,
      export_mode |-> export_mode, geo |-> geo,
      start |-> IntTrunc2(sc.pbMin2), end |-> IntTrunc2(sc.pbMax2) ]

\* export_textures of variant 1
export_textures1(sc, path, selection, tc, time, options, meta, collect_all) ==
    IF path = <<>> THEN Rejected("Choose an export path.", time)
    ELSE IF selection = <<>> THEN Rejected("Select geometry.", time)
    ELSE Completed(
            PairLoop1(ExportCtx(sc, path, selection[1], tc, options, meta, "datatable",
                                collect_all),
                      Pairs(get_materials_from_geo(sc, selection[1])),
                      [ files |-> NoFiles, time |-> time, timeline |-> <<>> ]))

\* export_textures of variant 2
export_textures2(sc, path, selection, tc, time, options, meta, export_mode, collect_all) ==
    IF path = <<>> THEN Rejected("Choose an export path.", time)
    ELSE IF selection = <<>> THEN Rejected("Select geometry.", time)
    ELSE Completed(
            PairLoop2(ExportCtx(sc, path, selection[1], tc, options, meta, export_mode,
                                collect_all),
                      Pairs(get_materials_from_geo(sc, selection[1])),
                      [ files |-> NoFiles, time |-> time, timeline |-> <<>> ]))

\* run_export of variant 1. checked: the value checkboxes that are on; rb_mode: the
\* selected radio button (1 = All Frames, 2 = Changes Only)
OptionsOf(checked) == SelectSeq(ALL_OPTIONS, LAMBDA o : o \in checked)

run_export1Unchecked(sc, path, selection, tc, time, checked, meta, rb_mode) ==
    [called |-> TRUE]
    @@ export_textures1(sc, path, selection, tc, time, OptionsOf(checked), meta,
                        rb_mode = 1)

run_export1(sc, path, selection, tc, time, checked, meta, rb_mode) ==
    IF OptionsOf(checked) = <<>>
    THEN [called |-> FALSE] @@ Rejected("Select values to export.", time)
    ELSE [called |-> TRUE]
         @@ export_textures1(sc, path, selection, tc, time, OptionsOf(checked), meta,
                             rb_mode = 1)

\* run_export of variant 2. rb_export: 1 = Data Table, 2 = Curve Table
run_export2(sc, path, selection, tc, time, checked, meta, rb_export, rb_frames) ==
    [called |-> TRUE]
    @@ export_textures2(sc, path, selection, tc, time, OptionsOf(checked), meta,
                        IF rb_export = 1 THEN "datatable" ELSE "curve", rb_frames = 1)

\* refresh_texture_list: the new TEXTURE_CHECKBOXES, every box created checked
TexturesOf(materials) ==
    UNION {Range(get_file_textures_from_material(materials[i])) : i \in 1..Len(materials)}

refresh_texture_list(sc, selection) ==
    IF selection = <<>> THEN NoFiles
    ELSE [tex \in TexturesOf(get_materials_from_geo(sc, selection[1])) |-> TRUE]

(***************************************************************************)
(* Inputs                                                                  *)
(***************************************************************************)
P_o_a_csv == <<"/", "o", "/", "a", ".", "c", "s", "v">>
P_o_a_txt == <<"/", "o", "/", "a", ".", "t", "x", "t">>

\* what the file dialog can return
PathPool == {P_o_a_csv, P_o_a_txt}

\* the selections the user makes
SelPool == {<<>>, <<N_head>>, <<N_body, N_head>>}

\* the settings of the six value checkboxes the user makes
CheckedPool ==
    { Range(ALL_OPTIONS), {}, {O_ScaleV}, {O_OffsetU, O_RotateUV},
      {O_ActiveImage, O_ScaleU, O_ScaleV} }

\* the settings of the three metadata checkboxes
MetaAll == [geo |-> TRUE, mat |-> TRUE, file |-> TRUE]

MetaPool ==
    { MetaAll,
      [geo |-> FALSE, mat |-> TRUE, file |-> FALSE],
      [geo |-> FALSE, mat |-> FALSE, file |-> FALSE] }

(***************************************************************************)
(* The handlers as actions                                                 *)
(***************************************************************************)
\* the user changes the selection
Select(s) ==
    /\ s # sel
    /\ sel' = s
    /\ written' = NoFiles
    /\ last' = [op |-> "select"]
    /\ UNCHANGED <<scene, variant, EXPORT_PATH, TEXTURE_CHECKBOXES, currentTime>>

\* the button "Refresh from Selection"
RefreshTextureList ==
    /\ TEXTURE_CHECKBOXES' = refresh_texture_list(scene, sel)
    /\ written' = NoFiles
    /\ last' = [op |-> "refresh_texture_list"]
    /\ UNCHANGED <<scene, variant, sel, EXPORT_PATH, currentTime>>

\* the user toggles the checkbox of a listed texture
ToggleTexture(tex) ==
    /\ tex \in DOMAIN TEXTURE_CHECKBOXES
    /\ TEXTURE_CHECKBOXES' = [TEXTURE_CHECKBOXES EXCEPT ![tex] = ~@]
    /\ written' = NoFiles
    /\ last' = [op |-> "toggle"]
    /\ UNCHANGED <<scene, variant, sel, EXPORT_PATH, currentTime>>

\* browse_path: p is the dialog's answer, <<>> when it is cancelled
BrowsePath(p) ==
    /\ EXPORT_PATH' = IF p # <<>> THEN p ELSE EXPORT_PATH
    /\ written' = NoFiles
    /\ last' = [op |-> "browse_path"]
    /\ UNCHANGED <<scene, variant, sel, TEXTURE_CHECKBOXES, currentTime>>

\* the effect of run_export on the state: r is what the call did
Exported(r, checked, meta, rb_export, rb_frames) ==
    /\ currentTime' = r.time
    /\ written' = r.files
    /\ last' = [ op |-> "run_export", checked |-> checked, meta |-> meta,
                 rb_frames |-> rb_frames, rb_export |-> rb_export, called |-> r.called,
                 warning |-> r.warning, message |-> r.message, timeline |-> r.timeline ]
    /\ UNCHANGED <<scene, variant, sel, EXPORT_PATH, TEXTURE_CHECKBOXES>>

\* the button "Export CSV" of variant 1
RunExport1(checked, meta, rb_mode) ==
    /\ variant = 1
    /\ \E r \in { run_export1(scene, EXPORT_PATH, sel, TEXTURE_CHECKBOXES, currentTime,
                              checked, meta, rb_mode) } :
          Exported(r, checked, meta, 1, rb_mode)

\* the button "Export CSV" of variant 2
RunExport2(checked, meta, rb_export, rb_frames) ==
    /\ variant = 2
    /\ \E r \in { run_export2(scene, EXPORT_PATH, sel, TEXTURE_CHECKBOXES, currentTime,
                              checked, meta, rb_export, rb_frames) } :
          Exported(r, checked, meta, rb_export, rb_frames)

(***************************************************************************)
(* Spec: a session at the panel. After build_ui the user selects, refreshes, *)
(* toggles textures, browses and exports in any order.                     *)
(***************************************************************************)
Init ==
    /\ scene \in SessionScenes
    /\ variant \in {1, 2}
    /\ sel = <<>>
    /\ EXPORT_PATH = <<>>
    /\ TEXTURE_CHECKBOXES = NoFiles
    /\ currentTime = 0
    /\ written = NoFiles
    /\ last = [op |-> "build_ui"]

Next ==
    \/ \E s \in SelPool : Select(s)
    \/ RefreshTextureList
    \/ \E tex \in FileNodes : ToggleTexture(tex)
    \/ \E p \in PathPool \cup {<<>>} : BrowsePath(p)
    \/ \E checked \in {Range(ALL_OPTIONS), {}}, rb_mode \in {1, 2} :
          RunExport1(checked, MetaAll, rb_mode)
    \/ \E checked \in {Range(ALL_OPTIONS), {}}, rb_export \in {1, 2}, rb_frames \in {1, 2} :
          RunExport2(checked, MetaAll, rb_export, rb_frames)

Spec == Init /\ [][Next]_vars

(***************************************************************************)
(* SpecExport: the exports of a prepared session (the head selected, the   *)
(* list refreshed, a path chosen), over every scene and setting            *)
(***************************************************************************)
InitExport ==
    /\ scene \in ScenePool
    /\ variant \in {1, 2}
    /\ sel = <<N_head>>
    /\ EXPORT_PATH = P_o_a_csv
    /\ TEXTURE_CHECKBOXES = refresh_texture_list(scene, sel)
    /\ currentTime = 0
    /\ written = NoFiles
    /\ last = [op |-> "browse_path"]

NextExport ==
    \/ \E checked \in CheckedPool, meta \in MetaPool, rb_mode \in {1, 2} :
          RunExport1(checked, meta, rb_mode)
    \/ \E checked \in CheckedPool, meta \in MetaPool, rb_export \in {1, 2},
          rb_frames \in {1, 2} : RunExport2(checked, meta, rb_export, rb_frames)

SpecExport == InitExport /\ [][NextExport]_vars

(***************************************************************************)
(* SpecCorr: get_offset_uv and get_scale_uv called on a texture of a scene *)
(* whose correction nodes are any list of at most MaxNodes nodes           *)
(***************************************************************************)
MaxNodes == 3

\* the nodes a scene's list is drawn from: one is a transform, not a multiplyDivide
CorrNodePool ==
    { N_Translation_Corr_Mouth, N_Translation_Corr_Pupil, N_Translation_Corr_Eye,
      N_Translation_Corr_EyePupil, N_Translation_Corr_Iris_grp, N_ScaleU_corr_eyePupil,
      N_ScaleU_corr_EYE, N_ScaleV_corr_eye, N_ScaleV_corr_mouth }

\* the lists of distinct nodes of at most MaxNodes nodes
NodeLists ==
    UNION { { l \in [1..k -> CorrNodePool] : \A i, j \in 1..k : i # j => l[i] # l[j] } :
            k \in 0..MaxNodes }

\* the (file node, place2d node) pairs the functions are called with
TexturePool ==
    { <<N_Iris_file, N_place2dTexture1>>, <<N_Pupil_tex, N_Eye_place>>,
      <<N_EyePupil_tex, N_Eye_place>>, <<N_skin_file, N_place2dTexture1>> }

InitCorr ==
    /\ scene \in { MkScene(<<N_eyeMat, N_skinMat>>, l, AnimatedCurves, {}, 2, 2 * LastFrame) :
                   l \in NodeLists }
    /\ variant = 2
    /\ sel = <<N_head>>
    /\ EXPORT_PATH = P_o_a_csv
    /\ TEXTURE_CHECKBOXES = NoFiles
    /\ currentTime = 2
    /\ written = NoFiles
    /\ last = [op |-> "build_ui"]

\* a call of get_offset_uv at the host's time
CallGetOffsetUV(file_node, place_node) ==
    /\ last' = [ op |-> "get_offset_uv", file_node |-> file_node, place_node |-> place_node,
                 result |-> get_offset_uv(scene, file_node, place_node, currentTime) ]
    /\ UNCHANGED <<scene, variant, sel, EXPORT_PATH, TEXTURE_CHECKBOXES, currentTime, written>>

\* a call of get_scale_uv at the host's time
CallGetScaleUV(file_node, place_node) ==
    /\ last' = [ op |-> "get_scale_uv", file_node |-> file_node, place_node |-> place_node,
                 result |-> get_scale_uv(scene, file_node, place_node, currentTime) ]
    /\ UNCHANGED <<scene, variant, sel, EXPORT_PATH, TEXTURE_CHECKBOXES, currentTime, written>>

NextCorr ==
    \/ \E tx \in TexturePool : CallGetOffsetUV(tx[1], tx[2])
    \/ \E tx \in TexturePool : CallGetScaleUV(tx[1], tx[2])

SpecCorr == InitCorr /\ [][NextCorr]_vars

(***************************************************************************)
(* What an export left behind, read back from the files                    *)
(***************************************************************************)
\* the step into this state was an export that ran to its end
ExportDone == last.op = "run_export" /\ last.message

\* the settings of that export
Options == OptionsOf(last.checked)
CollectAll == last.rb_frames = 1
DataTable == variant = 1 \/ last.rb_export = 1
Start == IntTrunc2(scene.pbMin2)
End == IntTrunc2(scene.pbMax2)

\* the frames start..end in order
FramesFrom(start, end) == [i \in 1..(end - start + 1) |-> start + i - 1]

\* the file of texture t, and the textures that have one
FileOf(t) == written[CsvPath(BaseDir(EXPORT_PATH), BaseName(EXPORT_PATH), t)]
ExportedTextures ==
    { t \in FileNodes : CsvPath(BaseDir(EXPORT_PATH), BaseName(EXPORT_PATH), t)
                        \in DOMAIN written }

\* the frames recorded in t's file, as written, in either layout
RecordedFrames(t) ==
    IF DataTable THEN [i \in 1..(Len(FileOf(t)) - 1) |-> FileOf(t)[i + 1][1]]
    ELSE Tail(FileOf(t)[1])

\* the values recorded with the i-th recorded frame, in the order of the options
RecordedValues(t, i) ==
    IF DataTable
    THEN SubSeq(FileOf(t)[i + 1], Len(FileOf(t)[i + 1]) - Len(Options) + 1,
                Len(FileOf(t)[i + 1]))
    ELSE [j \in 1..Len(Options) |-> FileOf(t)[j + 1][i + 1]]

\* the text of the values of the options sampled for t with the time at frame f
SampledWith(options, t, f) ==
    CsvRow(IF variant = 1 THEN SampleState1(scene, options, t, get_place2d(t), f)
           ELSE SampleState2(scene, options, t, get_place2d(t), f))

Sampled(t, f) == SampledWith(Options, t, f)

\* the first frame, and the later frames whose sample differs from the frame before
ChangedFrames(t) ==
    SelectSeq(FramesFrom(Start, End),
              LAMBDA f : f = Start \/ Sampled(t, f) # Sampled(t, f - 1))

\* C1: after a Changes Only export, in either variant, the file of every exported
\* texture records the first frame of the range and exactly those later frames
\* whose sampled tuple of selected options differs from the tuple of the frame
\* before, each with the values sampled at it; no two consecutive recorded rows
\* carry equal values
C1_ChangesOnly ==
    (ExportDone /\ ~CollectAll) =>
        \A t \in ExportedTextures :
            /\ RecordedFrames(t) = [i \in 1..Len(ChangedFrames(t)) |->
                                        IntToStr(ChangedFrames(t)[i])]
            /\ \A i \in 1..Len(ChangedFrames(t)) :
                  RecordedValues(t, i) = Sampled(t, ChangedFrames(t)[i])
            /\ \A i \in 1..(Len(RecordedFrames(t)) - 1) :
                  RecordedValues(t, i) # RecordedValues(t, i + 1)

\* a Changes Only export where one texture has a later frame recorded and a later
\* frame dropped, and another has a frame dropped at which an option that is not
\* selected changes
C1_Witness ==
    /\ ExportDone /\ ~CollectAll
    /\ \E t \in ExportedTextures :
          1 < Len(RecordedFrames(t)) /\ Len(RecordedFrames(t)) < End - Start + 1
    /\ \E t \in ExportedTextures : \E f \in (Start + 1)..End :
          /\ IntToStr(f) \notin Range(RecordedFrames(t))
          /\ SampledWith(ALL_OPTIONS, t, f) # SampledWith(ALL_OPTIONS, t, f - 1)

\* C2: after an All Frames export, in either variant, the file of every exported
\* texture has exactly one row per integer frame from int(playback min) to
\* int(playback max), in ascending order, each with the values sampled at that
\* frame; that is int(max) - int(min) + 1 rows whenever min <= max
C2_AllFrames ==
    (ExportDone /\ CollectAll) =>
        \A t \in ExportedTextures :
            /\ RecordedFrames(t) = [i \in 1..(End - Start + 1) |-> IntToStr(Start + i - 1)]
            /\ \A i \in 1..(End - Start + 1) :
                  RecordedValues(t, i) = Sampled(t, Start + i - 1)
            /\ scene.pbMin2 <= scene.pbMax2 =>
                  Len(RecordedFrames(t)) = End - Start + 1

\* an All Frames export over several frames, two of which carry equal values
C2_Witness ==
    /\ ExportDone /\ CollectAll
    /\ \E t \in ExportedTextures :
          /\ Len(RecordedFrames(t)) = End - Start + 1
          /\ \E i \in 1..(End - Start) : RecordedValues(t, i) = RecordedValues(t, i + 1)

(***************************************************************************)
(* The correction-node lookups, stated from the names                      *)
(***************************************************************************)
\* the keywords the lower-cased name contains, in the order iris, pupil, eye
KeywordsIn(name) ==
    SelectSeq(<<K_iris, K_pupil, K_eye>>, LAMBDA k : Contains(k, StrLower(name)))

\* the keywords of a texture: those of the file node, then those of the place2d node
KeywordList(file_node, place_node) == KeywordsIn(file_node) \o KeywordsIn(place_node)

\* the multiplyDivide nodes whose name starts with the prefix, in cmds.ls order
CorrNodes(prefix) ==
    SelectSeq(scene.nodes,
              LAMBDA n : nodeType(n) = "multiplyDivide" /\ Len(n) >= Len(prefix)
                         /\ SubSeq(n, 1, Len(prefix)) = prefix)

\* the positions in the list of the nodes whose lower-cased name contains keyword k
MatchesOf(k, nodes) == { j \in 1..Len(nodes) : Contains(k, StrLower(nodes[j])) }

\* the positions of the keywords of the list that some node matches
MatchedKeys(keys, nodes) == { i \in 1..Len(keys) : MatchesOf(keys[i], nodes) # {} }

Least(S) == CHOOSE i \in S : \A j \in S : i <= j
Greatest(S) == CHOOSE i \in S : \A j \in S : j <= i

OutputXY(n) ==
    << PyFloat(getAttr(scene, n, "outputX", currentTime)),
       PyFloat(getAttr(scene, n, "outputY", currentTime)) >>

OutputX(n) == PyFloat(getAttr(scene, n, "outputX", currentTime))

PlaceAttr(place_node, attr) == PyFloat(getAttr(scene, place_node, attr, currentTime))

\* a call of get_offset_uv (get_scale_uv) has just returned
OffsetCalled == last.op = "get_offset_uv"
ScaleCalled == last.op = "get_scale_uv"

\* the keywords of the call's texture, and the positions of those with a match
CallKeys == KeywordList(last.file_node, last.place_node)
CallMatched(prefix) == MatchedKeys(CallKeys, CorrNodes(prefix))

\* C3 as stated: get_offset_uv returns outputX/outputY of a Translation_Corr_*
\* multiplyDivide node only when that node's lower-cased name contains a keyword
\* of the texture, and otherwise the place2d node's offsetU/offsetV
C3_OffsetOnlyWhenMatched ==
    OffsetCalled =>
        IF CallMatched(T_Translation_Corr) # {}
        THEN \E i \in CallMatched(T_Translation_Corr) :
                \E j \in MatchesOf(CallKeys[i], CorrNodes(T_Translation_Corr)) :
                    last.result = OutputXY(CorrNodes(T_Translation_Corr)[j])
        ELSE last.result = << PlaceAttr(last.place_node, "offsetU"),
                              PlaceAttr(last.place_node, "offsetV") >>

\* C3 amended: get_offset_uv returns outputX/outputY of a Translation_Corr_*
\* multiplyDivide node whose lower-cased name contains a keyword of the texture
\* when there is one; otherwise outputX/outputY of the first Translation_Corr_*
\* multiplyDivide node in cmds.ls order when there is any; and the place2d node's
\* offsetU/offsetV only when there is no such node at all
C3_OffsetMatchedElseFirstNode ==
    OffsetCalled =>
        IF CallMatched(T_Translation_Corr) # {}
        THEN \E i \in CallMatched(T_Translation_Corr) :
                \E j \in MatchesOf(CallKeys[i], CorrNodes(T_Translation_Corr)) :
                    last.result = OutputXY(CorrNodes(T_Translation_Corr)[j])
        ELSE IF CorrNodes(T_Translation_Corr) # <<>>
        THEN last.result = OutputXY(CorrNodes(T_Translation_Corr)[1])
        ELSE last.result = << PlaceAttr(last.place_node, "offsetU"),
                              PlaceAttr(last.place_node, "offsetV") >>

\* a call for a texture with keywords, none of which any of the listed
\* Translation_Corr_* nodes matches
C3_Witness ==
    /\ OffsetCalled
    /\ CallKeys # <<>>
    /\ CorrNodes(T_Translation_Corr) # <<>>
    /\ CallMatched(T_Translation_Corr) = {}
    /\ last.result = OutputXY(CorrNodes(T_Translation_Corr)[1])

\* the value get_scale_uv is to return for one axis: outputX of the last node, in
\* cmds.ls order, matching the last keyword of the list that has any match, or
\* the place2d node's attribute when no node matches any keyword
ScaleExpected(prefix, attr) ==
    IF CallMatched(prefix) # {}
    THEN OutputX(CorrNodes(prefix)[
            Greatest(MatchesOf(CallKeys[Greatest(CallMatched(prefix))], CorrNodes(prefix)))])
    ELSE PlaceAttr(last.place_node, attr)

\* C4: get_scale_uv returns for ScaleU the outputX of a ScaleU_corr_* multiplyDivide
\* node only if its lower-cased name contains a keyword of the texture, namely of
\* the last matching node of the last keyword that has any match, and the place2d
\* node's repeatU when no node matches; ScaleV likewise and independently, from
\* ScaleV_corr_* and repeatV
C4_ScaleLastMatch ==
    ScaleCalled =>
        /\ last.result[1] = ScaleExpected(T_ScaleU_corr, "repeatU")
        /\ last.result[2] = ScaleExpected(T_ScaleV_corr, "repeatV")

\* a call where the last keyword with a match is matched by two ScaleU_corr_*
\* nodes and an earlier keyword by another node first, while a ScaleV_corr_* node
\* is listed that matches no keyword
C4_Witness ==
    /\ ScaleCalled
    /\ CallMatched(T_ScaleU_corr) # {}
    /\ Cardinality(MatchesOf(CallKeys[Greatest(CallMatched(T_ScaleU_corr))],
                             CorrNodes(T_ScaleU_corr))) = 2
    /\ Least(MatchesOf(CallKeys[Least(CallMatched(T_ScaleU_corr))],
                       CorrNodes(T_ScaleU_corr)))
       # Greatest(MatchesOf(CallKeys[Greatest(CallMatched(T_ScaleU_corr))],
                            CorrNodes(T_ScaleU_corr)))
    /\ CorrNodes(T_ScaleV_corr) # <<>>
    /\ CallMatched(T_ScaleV_corr) = {}
    /\ last.result[2] = PlaceAttr(last.place_node, "repeatV")

\* C7: when some Translation_Corr_* node matches a keyword of the texture,
\* get_offset_uv returns outputX/outputY of the first node, in cmds.ls order,
\* matching the earliest keyword that has any match in the list made of the file
\* node's keywords in the order iris, pupil, eye followed by the place2d node's
C7_OffsetPriority ==
    (OffsetCalled /\ CallMatched(T_Translation_Corr) # {}) =>
        last.result =
            OutputXY(CorrNodes(T_Translation_Corr)[
                Least(MatchesOf(CallKeys[Least(CallMatched(T_Translation_Corr))],
                                CorrNodes(T_Translation_Corr)))])

\* a call where the node returned is not the first listed node that matches a
\* keyword: an earlier listed node matches only a later keyword
C7_Witness ==
    /\ OffsetCalled
    /\ CallMatched(T_Translation_Corr) # {}
    /\ \E j \in 1..Len(CorrNodes(T_Translation_Corr)) :
          /\ j < Least(MatchesOf(CallKeys[Least(CallMatched(T_Translation_Corr))],
                                 CorrNodes(T_Translation_Corr)))
          /\ \E i \in CallMatched(T_Translation_Corr) :
                j \in MatchesOf(CallKeys[i], CorrNodes(T_Translation_Corr))

(***************************************************************************)
(* Which textures an export writes                                         *)
(***************************************************************************)
\* the file nodes in the history of a material of the first selected object
TexturesOfSelection ==
    IF sel = <<>> THEN {}
    ELSE { t \in FileNodes :
             \E sh \in Range(Shapes[sel[1]]) : \E sg \in Range(ShadingEngines[sh]) :
                \E m \in Range(SurfaceShader[sg]) : t \in Range(History[m]) }

\* C5: an export made at any point of a session writes a CSV for file node t only
\* if t is a file node in the history of a material of the first selected object,
\* t is a key of TEXTURE_CHECKBOXES, t's checkbox is checked and t has a node
\* connected to its uvCoord input; and it writes no other file. So with
\* TEXTURE_CHECKBOXES empty (no refresh, or a refresh with nothing selected) it
\* writes nothing
C5_ExportedOnlyIfListedAndChecked ==
    last.op = "run_export" =>
        /\ \A p \in DOMAIN written : \E t \in ExportedTextures :
              p = CsvPath(BaseDir(EXPORT_PATH), BaseName(EXPORT_PATH), t)
        /\ \A t \in ExportedTextures :
              /\ t \in TexturesOfSelection
              /\ t \in DOMAIN TEXTURE_CHECKBOXES
              /\ TEXTURE_CHECKBOXES[t]
              /\ UvCoord[t] # <<>>
        /\ DOMAIN TEXTURE_CHECKBOXES = {} => written = NoFiles

\* an export that wrote a texture and left out two of the selection's: one with a
\* uvCoord input that the last refresh did not list, and one listed and checked
\* that has no uvCoord input
C5_Witness ==
    /\ ExportDone
    /\ ExportedTextures # {}
    /\ \E t \in TexturesOfSelection \ ExportedTextures :
          t \notin DOMAIN TEXTURE_CHECKBOXES /\ UvCoord[t] # <<>>
    /\ \E t \in TexturesOfSelection \ ExportedTextures :
          t \in DOMAIN TEXTURE_CHECKBOXES /\ TEXTURE_CHECKBOXES[t] /\ UvCoord[t] = <<>>

\* C6: an export made while EXPORT_PATH is empty or nothing is selected emits a
\* warning, leaves the current time as it was, writes no file and does not show
\* the completion message; and in variant 1 an export with none of the six value
\* checkboxes checked emits a warning without calling export_textures
C6_RejectedNoEffect ==
    [][ last'.op = "run_export" =>
          /\ (EXPORT_PATH = <<>> \/ sel = <<>>) =>
                /\ last'.warning # ""
                /\ currentTime' = currentTime
                /\ written' = NoFiles
                /\ ~last'.message
          /\ (variant = 1 /\ last'.checked = {}) =>
                /\ last'.warning # ""
                /\ ~last'.called ]_vars

\* export_textures has rejected an export for the lack of a selection, after an
\* earlier export had moved the current time
C6_Witness ==
    /\ last.op = "run_export"
    /\ last.called
    /\ last.warning = "Select geometry."
    /\ currentTime # 0
    /\ written = NoFiles

(***************************************************************************)
(* The two layouts and the two variants compared                           *)
(***************************************************************************)
\* the i-th column of a table, and a table's columns from the i-th on
Column(rows, i) == [k \in 1..Len(rows) |-> rows[k][i]]

\* the number of metadata columns of a data table
MetaCount(meta) ==
    (IF meta.geo THEN 1 ELSE 0) + (IF meta.mat THEN 1 ELSE 0) + (IF meta.file THEN 1 ELSE 0)

\* curve is the transpose of the data table dt written with the flags meta: its
\* first row is an empty cell and dt's frames, and there is one more row per
\* option, the option's name and its column of dt
IsTransposeOf(curve, dt, meta) ==
    /\ Len(curve) = 1 + Len(Options)
    /\ curve[1] = <<<<>>>> \o Column(Tail(dt), 1)
    /\ \A j \in 1..Len(Options) :
          /\ curve[j + 1] = <<Options[j]>> \o Column(Tail(dt), 1 + MetaCount(meta) + j)
          /\ Len(curve[j + 1]) = 1 + Len(Tail(dt))

\* C8: in variant 2 the files of a curve export are the transposes of the files a
\* data-table export of the same scene, options and frame mode writes, whatever
\* the metadata flags of the data table: a first row of an empty cell and the
\* recorded frames, then one row per selected option in the order ActiveImage,
\* OffsetU, OffsetV, ScaleU, ScaleV, RotateUV with that option's column; and the
\* curve export writes the same files whatever the metadata flags
C8_CurveIsTranspose ==
    (ExportDone /\ variant = 2 /\ ~DataTable) =>
        \A meta \in MetaPool :
            /\ \A dt \in { export_textures2(scene, EXPORT_PATH, sel, TEXTURE_CHECKBOXES, 0,
                                            Options, meta, "datatable", CollectAll).files } :
                  /\ DOMAIN dt = DOMAIN written
                  /\ \A p \in DOMAIN written : IsTransposeOf(written[p], dt[p], meta)
            /\ written = export_textures2(scene, EXPORT_PATH, sel, TEXTURE_CHECKBOXES, 0,
                                          Options, meta, "curve", CollectAll).files

\* a Changes Only curve export of several options with metadata flags set, in
\* which a file records some but not all of the frames
C8_Witness ==
    /\ ExportDone /\ variant = 2 /\ ~DataTable /\ ~CollectAll
    /\ Len(Options) > 1
    /\ last.meta.mat
    /\ \E t \in ExportedTextures :
          /\ 1 < Len(RecordedFrames(t)) /\ Len(RecordedFrames(t)) < End - Start + 1
          /\ Len(FileOf(t)) = 1 + Len(Options)

\* the scene has no correction node of the three kinds
NoCorrNodes ==
    /\ CorrNodes(T_Translation_Corr) = <<>>
    /\ CorrNodes(T_ScaleU_corr) = <<>>
    /\ CorrNodes(T_ScaleV_corr) = <<>>

\* C9: on a scene without Translation_Corr_*, ScaleU_corr_* and ScaleV_corr_*
\* multiplyDivide nodes, with some option selected and playback min <= max, the
\* export of variant 1 and the Data Table export of variant 2 write the same
\* files: the same header and rows at the same paths, for any metadata flags and
\* either frame mode
C9_VariantsAgree ==
    (ExportDone /\ DataTable /\ NoCorrNodes /\ Options # <<>>
        /\ scene.pbMin2 <= scene.pbMax2) =>
        written =
            IF variant = 1
            THEN export_textures2(scene, EXPORT_PATH, sel, TEXTURE_CHECKBOXES, 0, Options,
                                  last.meta, "datatable", CollectAll).files
            ELSE export_textures1(scene, EXPORT_PATH, sel, TEXTURE_CHECKBOXES, 0, Options,
                                  last.meta, CollectAll).files

\* a data-table export of variant 2 on such a scene that wrote the scale options
\* of a texture over a fractional playback range
C9_Witness ==
    /\ ExportDone /\ DataTable /\ NoCorrNodes /\ variant = 2
    /\ scene.pbMin2 < scene.pbMax2 /\ scene.pbMin2 % 2 = 1
    /\ O_ScaleV \in Range(Options)
    /\ \E t \in ExportedTextures : Len(RecordedFrames(t)) > 1

(***************************************************************************)
(* The paths and the materials of the files                                *)
(***************************************************************************)
\* <dir>/<base>_<fileNode>.csv for the directory /o and the base name a, which
\* both paths of the file dialog have
ExpectedPath(t) == <<"/", "o", "/", "a", "_">> \o t \o <<".", "c", "s", "v">>

\* the materials of the first selected object in the order they are processed,
\* and the last of them that has t in its history
MaterialsOfSelection == get_materials_from_geo(scene, sel[1])

LastMaterialOf(t) ==
    MaterialsOfSelection[
        Greatest({ i \in 1..Len(MaterialsOfSelection) :
                     t \in Range(History[MaterialsOfSelection[i]]) })]

\* the frame a Frame field stands for
FrameNumber(cell) == CHOOSE n \in (Start - 1)..(End + 1) : IntToStr(n) = cell

\* C10: every file of a data-table export is at <dir>/<base>_<fileNode>.csv for a
\* file node of the selection, whatever the material and the extension of the
\* export path; it holds the rows of one material, the last one processed that
\* reaches the file node: its Material fields all name that material and its
\* Frame fields are strictly ascending; there is at most one file per file node;
\* and the frames were stepped through once per material that reaches a written
\* file node
C10_OneMaterialPerFile ==
    (ExportDone /\ DataTable /\ last.meta = MetaAll) =>
        /\ \A p \in DOMAIN written : \E t \in TexturesOfSelection :
              /\ p = ExpectedPath(t)
              /\ \A i \in 2..Len(written[p]) : written[p][i][3] = LastMaterialOf(t)
              /\ \A i \in 2..(Len(written[p]) - 1) :
                    FrameNumber(written[p][i][1]) < FrameNumber(written[p][i + 1][1])
        /\ Cardinality(DOMAIN written) <= Cardinality(TexturesOfSelection)
        /\ Len(last.timeline) =
              (End - Start + 1)
              * Cardinality({ x \in (1..Len(MaterialsOfSelection)) \X ExportedTextures :
                                x[2] \in Range(History[MaterialsOfSelection[x[1]]]) })

\* a data-table export to a path with another extension that wrote, over several
\* frames, a file node that two materials of the selection reach
C10_Witness ==
    /\ ExportDone /\ DataTable /\ last.meta = MetaAll
    /\ EXPORT_PATH = P_o_a_txt
    /\ \E t \in TexturesOfSelection :
          /\ ExpectedPath(t) \in DOMAIN written
          /\ Len(written[ExpectedPath(t)]) > 2
          /\ \A i \in 1..Len(MaterialsOfSelection) :
                t \in Range(History[MaterialsOfSelection[i]])
          /\ Len(MaterialsOfSelection) = 2

(***************************************************************************)
(* The timeline during an export                                           *)
(***************************************************************************)
\* the (material, file node) pairs of the selection that pass the three filters
ProcessedPairs ==
    { x \in (1..Len(MaterialsOfSelection)) \X FileNodes :
        /\ x[2] \in Range(History[MaterialsOfSelection[x[1]]])
        /\ x[2] \in DOMAIN TEXTURE_CHECKBOXES
        /\ TEXTURE_CHECKBOXES[x[2]]
        /\ UvCoord[x[2]] # <<>> }

\* the frames int(min)..int(max) in ascending order, once per pair
ScrubbedFrames(pairs) ==
    IF End < Start THEN <<>>
    ELSE [k \in 1..(pairs * (End - Start + 1)) |-> Start + ((k - 1) % (End - Start + 1))]

\* what an export that ran to its end leaves: the calls of cmds.currentTime, the
\* recorded values and the time
TimelineLeft ==
    ExportDone =>
        /\ last.timeline = ScrubbedFrames(Cardinality(ProcessedPairs))
        /\ \A t \in ExportedTextures :
              \A i \in 1..Len(RecordedFrames(t)) :
                  RecordedValues(t, i) = Sampled(t, FrameNumber(RecordedFrames(t)[i]))
        /\ (ProcessedPairs # {} /\ scene.pbMin2 <= scene.pbMax2) => currentTime = End

\* C11: an export that runs to its end sets the current time, for every (material,
\* texture) pair that passes the filters, to each integer frame from int(playback
\* min) to int(playback max) once, in ascending order; the values recorded for a
\* frame are those read with the time at that frame; the time is not restored:
\* after an export that processed a pair with min <= max it is int(playback max),
\* and after an export that processed no pair it is what it was
C11_TimelineAndFinalTime ==
    /\ []TimelineLeft
    /\ [][ (last'.op = "run_export" /\ last'.message /\ ProcessedPairs = {}) =>
              currentTime' = currentTime ]_vars

\* an export has stepped three pairs through several frames each and left the
\* time at the last frame
C11_Witness ==
    /\ ExportDone
    /\ Cardinality(ProcessedPairs) = 3
    /\ Start < End
    /\ Len(last.timeline) = 3 * (End - Start + 1)
    /\ currentTime = End

====
